---------------------------- MODULE Spec2Model ----------------------------
(***************************************************************************)
(* Model of final_project.py: the DCF valuation function                   *)
(* calculate_intrinsic_price, the WACC slider, and the sensitivity curve   *)
(* built with np.linspace and a list comprehension.                        *)
(*                                                                         *)
(* Python floats are modelled by exact rationals [neg, num, den] whose     *)
(* numerator and denominator are arbitrary-precision naturals (little-     *)
(* endian sequences of base-10000 limbs), because the amounts exceed the   *)
(* integer range of the model checker.  round(x, 2) is computed as         *)
(* round-half-to-even on the exact value and yields an integer number of   *)
(* cents.                                                                  *)
(***************************************************************************)
EXTENDS Integers, Sequences, FiniteSets, TLC

-----------------------------------------------------------------------------
(* Arbitrary-precision naturals.                                           *)

Base == 100 * 100

Limb(a, i) == IF i <= Len(a) THEN a[i] ELSE 0

RECURSIVE NNorm(_)
NNorm(a) ==
    IF Len(a) = 0 THEN a
    ELSE IF a[Len(a)] = 0 THEN NNorm(SubSeq(a, 1, Len(a) - 1)) ELSE a

RECURSIVE NFromInt(_)
NFromInt(n) == IF n = 0 THEN << >> ELSE <<n % Base>> \o NFromInt(n \div Base)

RECURSIVE NToIntFrom(_, _)
NToIntFrom(a, i) ==
    IF i > Len(a) THEN 0 ELSE a[i] + Base * NToIntFrom(a, i + 1)

NToInt(a) == NToIntFrom(a, 1)

RECURSIVE NAddC(_, _, _, _)
NAddC(a, b, i, c) ==
    IF i > Len(a) /\ i > Len(b)
    THEN IF c = 0 THEN << >> ELSE <<c>>
    ELSE LET s == Limb(a, i) + Limb(b, i) + c
         IN  <<s % Base>> \o NAddC(a, b, i + 1, s \div Base)

NAdd(a, b) == NAddC(a, b, 1, 0)

RECURSIVE NSubC(_, _, _, _)
NSubC(a, b, i, c) ==
    IF i > Len(a) THEN << >>
    ELSE LET s == a[i] - Limb(b, i) - c
         IN  IF s < 0 THEN <<s + Base>> \o NSubC(a, b, i + 1, 1)
                      ELSE <<s>> \o NSubC(a, b, i + 1, 0)

\* a - b for a >= b
NSub(a, b) == NNorm(NSubC(a, b, 1, 0))

RECURSIVE NCmpFrom(_, _, _)
NCmpFrom(a, b, i) ==
    IF i = 0 THEN 0
    ELSE IF a[i] < b[i] THEN -1
    ELSE IF a[i] > b[i] THEN 1
    ELSE NCmpFrom(a, b, i - 1)

\* -1, 0 or 1 as a < b, a = b, a > b (both normalised)
NCmp(a, b) ==
    IF Len(a) < Len(b) THEN -1
    ELSE IF Len(a) > Len(b) THEN 1
    ELSE NCmpFrom(a, b, Len(a))

RECURSIVE NMulSmallC(_, _, _, _)
NMulSmallC(a, m, i, c) ==
    IF i > Len(a) THEN NFromInt(c)
    ELSE LET s == a[i] * m + c
         IN  <<s % Base>> \o NMulSmallC(a, m, i + 1, s \div Base)

\* a * m for 0 <= m < Base
NMulSmall(a, m) == IF m = 0 \/ Len(a) = 0 THEN << >> ELSE NMulSmallC(a, m, 1, 0)

\* Horner scheme from the most significant limb of b:
\* NMulAt(a, b, j) = a * (b[j] + Base * b[j+1] + ...)
RECURSIVE NMulAt(_, _, _)
NMulAt(a, b, j) ==
    IF j > Len(b) THEN << >>
    ELSE LET hi == NMulAt(a, b, j + 1)
         IN  NAdd(NMulSmall(a, b[j]), IF Len(hi) = 0 THEN hi ELSE <<0>> \o hi)

NMul(a, b) == IF Len(a) = 0 \/ Len(b) = 0 THEN << >> ELSE NMulAt(a, b, 1)

\* largest q in lo..hi with q * b <= r (lo satisfies it)
RECURSIVE QDigit(_, _, _, _)
QDigit(r, b, lo, hi) ==
    IF lo = hi THEN lo
    ELSE LET mid == (lo + hi + 1) \div 2
         IN  IF NCmp(NMulSmall(b, mid), r) <= 0
             THEN QDigit(r, b, mid, hi)
             ELSE QDigit(r, b, lo, mid - 1)

\* long division of the limbs a[1..i] still to bring down, remainder r so far:
\* returns <<quotient limbs (little-endian), remainder>>
RECURSIVE NDivFrom(_, _, _, _)
NDivFrom(a, b, i, r) ==
    IF i = 0 THEN << << >>, r >>
    ELSE LET r1 == NNorm(<<a[i]>> \o r)
             q  == IF NCmp(r1, b) < 0 THEN 0 ELSE QDigit(r1, b, 1, Base - 1)
             r2 == IF q = 0 THEN r1 ELSE NSub(r1, NMulSmall(b, q))
             lo == NDivFrom(a, b, i - 1, r2)
         IN  << lo[1] \o <<q>>, lo[2] >>

\* <<a div b, a mod b>> for b > 0
NDivMod(a, b) ==
    LET qr == NDivFrom(a, b, Len(a), << >>)
    IN  << NNorm(qr[1]), qr[2] >>

\* big-endian groups of four decimal digits, e.g. Dec(<<12, 3456>>) = 123456
Dec(groups) == NNorm([i \in 1..Len(groups) |-> groups[Len(groups) + 1 - i]])

-----------------------------------------------------------------------------
(* Exact rationals standing for Python numbers.                            *)

Rat(neg, num, den) == [neg |-> neg /\ Len(num) > 0, num |-> num, den |-> den]

\* the rational n / d of two small integers, d > 0
Frac(n, d) == Rat(n < 0, NFromInt(IF n < 0 THEN -n ELSE n), NFromInt(d))

\* a whole amount given as decimal digit groups
Whole(groups) == Rat(FALSE, Dec(groups), NFromInt(1))

\* an amount with two decimals, given as the digit groups of its cents
Cents(groups) == Rat(FALSE, Dec(groups), NFromInt(100))

RNeg(x) == Rat(~x.neg, x.num, x.den)

RAdd(x, y) ==
    LET same == x.den = y.den
        a == IF same THEN x.num ELSE NMul(x.num, y.den)
        b == IF same THEN y.num ELSE NMul(y.num, x.den)
        d == IF same THEN x.den ELSE NMul(x.den, y.den)
    IN  IF x.neg = y.neg THEN Rat(x.neg, NAdd(a, b), d)
        ELSE IF NCmp(a, b) >= 0 THEN Rat(x.neg, NSub(a, b), d)
        ELSE Rat(y.neg, NSub(b, a), d)

RSub(x, y) == RAdd(x, RNeg(y))

RMul(x, y) == Rat(x.neg # y.neg, NMul(x.num, y.num), NMul(x.den, y.den))

\* a zero denominator marks the outcome of a division by zero
\* (Python raises ZeroDivisionError)
Faulted(x) == Len(x.den) = 0

RDiv(x, y) ==
    IF Len(y.num) = 0 \/ Faulted(y) \/ Faulted(x)
    THEN Rat(FALSE, << >>, << >>)
    ELSE Rat(x.neg # y.neg, NMul(x.num, y.den), NMul(x.den, y.num))

\* -1, 0, 1 as x < y, x = y, x > y
RCmp(x, y) ==
    LET d == RSub(x, y)
    IN  IF Len(d.num) = 0 THEN 0 ELSE IF d.neg THEN -1 ELSE 1

RLeq(x, y) == RCmp(x, y) <= 0
RLess(x, y) == RCmp(x, y) < 0

\* the integer nearest to x, ties to the even integer (Python's round)
RoundHalfEven(x) ==
    LET qr    == NDivMod(x.num, x.den)
        q     == NToInt(qr[1])
        twice == NCmp(NAdd(qr[2], qr[2]), x.den)
        up    == twice > 0 \/ (twice = 0 /\ q % 2 = 1)
        m     == IF up THEN q + 1 ELSE q
    IN  IF x.neg THEN -m ELSE m

\* round(x, 2), as a whole number of cents
Round2(x) == RoundHalfEven(RMul(x, Frac(100, 1)))

\* a return value: a price in cents, Python's None, or a raised
\* ZeroDivisionError; Unset is a name not yet bound
Price(c) == [kind |-> "price", cents |-> c]
None == [kind |-> "none", cents |-> 0]
Raised == [kind |-> "raise", cents |-> 0]
Unset == [kind |-> "unset", cents |-> 0]

-----------------------------------------------------------------------------
VARIABLES
    \* module constants, lines 8-20
    market_cap, total_debt, cash_investments, outstanding_shares,
    interest_expense, net_debt, fcf_sum, final_year_fcf, terminal_growth,
    \* position in the script / in the operation under way
    pc,
    \* the last two invocations of calculate_intrinsic_price
    called, wacc, result, prev_wacc, prev_result,
    \* slider section, lines 65-73
    wacc_input, new_share_price, warning,
    \* sensitivity curve, lines 87-88
    linspace_args, wacc_values, share_prices, evals,
    \* selected-point trace, lines 100-102
    selected_y

financials ==
    <<market_cap, total_debt, cash_investments, outstanding_shares,
      interest_expense, net_debt, fcf_sum, final_year_fcf, terminal_growth>>

callvars == <<called, wacc, result, prev_wacc, prev_result>>
slidervars == <<wacc_input, new_share_price, warning>>
curvevars == <<linspace_args, wacc_values, share_prices, evals>>

vars == <<financials, pc, callvars, slidervars, curvevars, selected_y>>

-----------------------------------------------------------------------------
(* Bounds of the model.                                                    *)

\* direct calls use the whole percentages -1% .. MaxWholePercent%
MaxWholePercent == 6
\* ... the rates 12.000%, 12.001%, ... in FineSteps steps of 0.001%
FineSteps == 3
\* ... and the rates 22.75%, 22.76%, ... in BreakEvenSteps steps of 0.01%,
\* where the price changes sign
BreakEvenSteps == 6
\* sample counts of the curves generated besides the script's own
MaxSamples == 3

-----------------------------------------------------------------------------
(* The valuation function, lines 25-40.                                    *)

\* variant: the guard written with < instead of <=
calculate_intrinsic_price_strict_guard(w) ==
    IF RLess(w, terminal_growth) THEN None
    ELSE LET terminal_value ==
                 RDiv(RMul(final_year_fcf, RAdd(Frac(1, 1), terminal_growth)),
                      RSub(w, terminal_growth))
             enterprise_value == RAdd(fcf_sum, terminal_value)
             equity_value == RSub(enterprise_value, net_debt)
             intrinsic_share_price == RDiv(equity_value, outstanding_shares)
         IN  IF Faulted(intrinsic_share_price) THEN Raised
             ELSE Price(Round2(intrinsic_share_price))

\* variant: the terminal value discounted by one period
calculate_intrinsic_price_discounted(w) ==
    IF RLeq(w, terminal_growth) THEN None
    ELSE LET terminal_value ==
                 RDiv(RDiv(RMul(final_year_fcf, RAdd(Frac(1, 1), terminal_growth)),
                           RSub(w, terminal_growth)),
                      RAdd(Frac(1, 1), w))
             enterprise_value == RAdd(fcf_sum, terminal_value)
             equity_value == RSub(enterprise_value, net_debt)
             intrinsic_share_price == RDiv(equity_value, outstanding_shares)
         IN  IF Faulted(intrinsic_share_price) THEN Raised
             ELSE Price(Round2(intrinsic_share_price))

\* variant: the operands of the equity subtraction swapped
calculate_intrinsic_price_swapped(w) ==
    IF RLeq(w, terminal_growth) THEN None
    ELSE LET terminal_value ==
                 RDiv(RMul(final_year_fcf, RAdd(Frac(1, 1), terminal_growth)),
                      RSub(w, terminal_growth))
             enterprise_value == RAdd(fcf_sum, terminal_value)
             equity_value == RSub(net_debt, enterprise_value)
             intrinsic_share_price == RDiv(equity_value, outstanding_shares)
         IN  IF Faulted(intrinsic_share_price) THEN Raised
             ELSE Price(Round2(intrinsic_share_price))

calculate_intrinsic_price(w) ==
    IF RLeq(w, terminal_growth) THEN None
    ELSE LET terminal_value ==
                 RDiv(RMul(final_year_fcf, RAdd(Frac(1, 1), terminal_growth)),
                      RSub(w, terminal_growth))
             enterprise_value == RAdd(fcf_sum, terminal_value)
             equity_value == RSub(enterprise_value, net_debt)
             intrinsic_share_price == RDiv(equity_value, outstanding_shares)
         IN  IF Faulted(intrinsic_share_price) THEN Raised
             ELSE Price(Round2(intrinsic_share_price))

\* variant: the call rebinds the global net_debt
GlobalsAfterCall_rebinds_net_debt ==
    /\ net_debt' = RSub(net_debt, cash_investments)
    /\ UNCHANGED <<market_cap, total_debt, cash_investments, outstanding_shares,
                   interest_expense, fcf_sum, final_year_fcf, terminal_growth>>

\* variant: the call accumulates the final-year cash flow into fcf_sum
GlobalsAfterCall_accumulates_fcf ==
    /\ fcf_sum' = RAdd(fcf_sum, final_year_fcf)
    /\ UNCHANGED <<market_cap, total_debt, cash_investments, outstanding_shares,
                   interest_expense, net_debt, final_year_fcf, terminal_growth>>

\* what a call leaves in the module's globals: the function binds only
\* locals, so every global keeps its value
GlobalsAfterCall == UNCHANGED financials

\* one invocation: the argument and the return value are recorded, the
\* invocation before it is kept
Invoke(w) ==
    /\ wacc' = w
    /\ result' = calculate_intrinsic_price(w)
    /\ prev_wacc' = wacc
    /\ prev_result' = result
    /\ called' = IF called < 2 THEN called + 1 ELSE 2
    /\ GlobalsAfterCall

\* variant: fcf_sum set to the documented average sum 32,890,305,165.62
InitFinancials_average_sum ==
    /\ market_cap = Whole(<<1158, 3000, 0>>)
    /\ total_debt = Whole(<<707, 6000, 0>>)
    /\ cash_investments = Whole(<<94, 1000, 0>>)
    /\ outstanding_shares = Whole(<<18, 0, 0>>)
    /\ interest_expense = Whole(<<44, 0, 0>>)
    /\ net_debt = RSub(total_debt, cash_investments)
    /\ fcf_sum = Cents(<<3, 2890, 3051, 6562>>)
    /\ final_year_fcf = Cents(<<5378, 4144, 4478>>)
    /\ terminal_growth = Frac(3, 100)

InitFinancials ==
    /\ market_cap = Whole(<<1158, 3000, 0>>)
    /\ total_debt = Whole(<<707, 6000, 0>>)
    /\ cash_investments = Whole(<<94, 1000, 0>>)
    /\ outstanding_shares = Whole(<<18, 0, 0>>)
    /\ interest_expense = Whole(<<44, 0, 0>>)
    /\ net_debt = RSub(total_debt, cash_investments)
    /\ fcf_sum = RAdd(RAdd(RAdd(RAdd(Whole(<<78, 1000, 0>>), Whole(<<76, 4000, 0>>)),
                                Whole(<<65, 2000, 0>>)), Whole(<<59, 5000, 0>>)),
                      Whole(<<54, 4000, 0>>))
    /\ final_year_fcf = Cents(<<5378, 4144, 4478>>)
    /\ terminal_growth = Frac(3, 100)

NoArgs == [start |-> Frac(0, 1), stop |-> Frac(0, 1), num |-> 0]

InitScript ==
    /\ pc = "idle"
    /\ called = 0
    /\ wacc = Frac(0, 1) /\ result = Unset
    /\ prev_wacc = Frac(0, 1) /\ prev_result = Unset
    /\ wacc_input = Frac(0, 1) /\ new_share_price = Unset /\ warning = FALSE
    /\ linspace_args = NoArgs
    /\ wacc_values = << >> /\ share_prices = << >> /\ evals = 0
    /\ selected_y = << >>

Init == InitFinancials /\ InitScript

-----------------------------------------------------------------------------
(* Direct calls of the valuation function.                                 *)

CallRates ==
    {Frac(n, 100) : n \in -1..MaxWholePercent}
    \cup {Frac(945, 10000), Frac(685, 10000)}
    \cup {Frac(12000 + j, 100000) : j \in 0..FineSteps}
    \cup {Frac(2275 + j, 10000) : j \in 0..BreakEvenSteps}

Call(w) ==
    /\ pc = "idle"
    /\ Invoke(w)
    /\ UNCHANGED <<pc, slidervars, curvevars, selected_y>>

-----------------------------------------------------------------------------
(* The sensitivity curve, lines 87-88.                                     *)

\* variant: endpoint=False, the samples spaced by (stop - start) / num
Linspace_open(start, stop, num) ==
    LET delta == RSub(stop, start)
        step  == IF num > 0 THEN RDiv(delta, Frac(num, 1)) ELSE delta
    IN  [i \in 1..num |-> RAdd(start, RMul(Frac(i - 1, 1), step))]

\* variant: the spacing always computed by the division
Linspace_unguarded(start, stop, num) ==
    LET div   == num - 1
        delta == RSub(stop, start)
        step  == RDiv(delta, Frac(div, 1))
    IN  [i \in 1..num |->
            IF num > 1 /\ i = num THEN stop
            ELSE RAdd(start, RMul(Frac(i - 1, 1), step))]

\* np.linspace(start, stop, num) with endpoint=True: num samples
\* start + i * step, step = (stop - start) / (num - 1), the last one set to
\* stop; with num = 1 no division is made, the samples are start + i * delta
\* and the only one is start
Linspace(start, stop, num) ==
    LET div   == num - 1
        delta == RSub(stop, start)
        step  == IF div > 0 THEN RDiv(delta, Frac(div, 1)) ELSE delta
    IN  [i \in 1..num |->
            IF num > 1 /\ i = num THEN stop
            ELSE RAdd(start, RMul(Frac(i - 1, 1), step))]

\* np.linspace(...) / 100
RateSamples(args) ==
    LET y == Linspace(args.start, args.stop, args.num)
    IN  [i \in 1..args.num |-> RDiv(y[i], Frac(100, 1))]

\* the arguments the script passes: np.linspace(3.5, 12, 100)
ScriptArgs == [start |-> Frac(35, 10), stop |-> Frac(12, 1), num |-> 100]

CurveArgs ==
    {ScriptArgs}
    \cup [start : {Frac(2, 1), Frac(35, 10)}, stop : {Frac(4, 1), Frac(12, 1)},
          num : 1..MaxSamples]

\* line 87
CurveStart(args) ==
    /\ linspace_args' = args
    /\ wacc_values' = RateSamples(args)
    /\ share_prices' = << >>
    /\ evals' = 0
    /\ pc' = "loop"
    /\ UNCHANGED <<financials, callvars, slidervars, selected_y>>

\* variant: the loop stops at the first sample valued None
MoreSamples_until_none ==
    /\ Len(share_prices) < Len(wacc_values)
    /\ (Len(share_prices) > 0 => share_prices[Len(share_prices)] # None)

\* the comprehension goes on while a sample is left
MoreSamples == Len(share_prices) < Len(wacc_values)

\* the comprehension collects the value of every sample
Collect(prices, r) == Append(prices, r)

\* line 88, one element of the comprehension
CurveStep ==
    /\ pc = "loop"
    /\ MoreSamples
    /\ Invoke(wacc_values[Len(share_prices) + 1])
    /\ share_prices' = Collect(share_prices, result')
    /\ evals' = evals + 1
    /\ UNCHANGED <<pc, linspace_args, wacc_values, slidervars, selected_y>>

\* line 88, the comprehension is exhausted
CurveEnd ==
    /\ pc = "loop"
    /\ ~MoreSamples
    /\ pc' = "plot"
    /\ UNCHANGED <<financials, callvars, slidervars, curvevars, selected_y>>

\* the curve generator called on its own
GenerateCurve(args) == pc = "idle" /\ CurveStart(args)

\* ... hands the two sequences to its caller
CurveReturn ==
    /\ pc = "plot"
    /\ pc' = "idle"
    /\ linspace_args' = NoArgs
    /\ wacc_values' = << >> /\ share_prices' = << >> /\ evals' = 0
    /\ UNCHANGED <<financials, callvars, slidervars, selected_y>>

-----------------------------------------------------------------------------
(* One run of the Streamlit script.                                        *)

\* st.slider(min_value=3.5, max_value=12.0, step=0.01), in hundredths of
\* a percent
SliderMin == 350
SliderMax == 1200
\* variant: the slider starting at 3.00%
SliderValues_from_growth == 300..SliderMax
SliderValues == SliderMin..SliderMax

\* lines 65-80: the slider value in percent, divided by 100, valued,
\* and shown or refused
Rerun(k) ==
    /\ pc = "idle"
    /\ wacc_input' = RDiv(Frac(k, 100), Frac(100, 1))
    /\ Invoke(wacc_input')
    /\ new_share_price' = result'
    /\ warning' = (new_share_price' = None)
    /\ pc' = "curve"
    /\ UNCHANGED <<curvevars, selected_y>>

\* line 87 in the script
ScriptCurve == pc = "curve" /\ CurveStart(ScriptArgs)

\* Python truthiness of a return value: None and 0.0 are false
Truthy(p) == p.kind = "price" /\ p.cents # 0

\* lines 100-102
PlotSelected ==
    /\ pc = "plot"
    /\ selected_y' = IF Truthy(new_share_price) THEN <<new_share_price>> ELSE <<None>>
    /\ pc' = "done"
    /\ UNCHANGED <<financials, callvars, slidervars, curvevars>>

\* Streamlit runs the script again from the top: every name is bound anew
Restart ==
    /\ pc = "done"
    /\ pc' = "idle"
    /\ called' = 0
    /\ wacc' = Frac(0, 1) /\ result' = Unset
    /\ prev_wacc' = Frac(0, 1) /\ prev_result' = Unset
    /\ wacc_input' = Frac(0, 1) /\ new_share_price' = Unset /\ warning' = FALSE
    /\ linspace_args' = NoArgs
    /\ wacc_values' = << >> /\ share_prices' = << >> /\ evals' = 0
    /\ selected_y' = << >>
    /\ UNCHANGED financials

-----------------------------------------------------------------------------
Next ==
    \/ \E w \in CallRates : Call(w)
    \/ \E args \in CurveArgs : GenerateCurve(args)
    \/ CurveStep
    \/ CurveEnd
    \/ CurveReturn

Spec == Init /\ [][Next]_vars

NextApp ==
    \/ \E k \in SliderValues : Rerun(k)
    \/ ScriptCurve
    \/ CurveStep
    \/ CurveEnd
    \/ PlotSelected
    \/ Restart

SpecApp == Init /\ [][NextApp]_vars
-----------------------------------------------------------------------------
(* Properties.                                                             *)

REq(x, y) == RCmp(x, y) = 0

InCurve == pc \in {"loop", "plot"}

\* c is 100 * x rounded to the nearest integer, ties to even
IsRound2(c, x) ==
    LET d == RSub(RMul(x, Frac(100, 1)), Frac(c, 1))
        a == Rat(FALSE, d.num, d.den)
        h == RCmp(a, Frac(1, 2))
    IN  h < 0 \/ (h = 0 /\ c % 2 = 0)

\* the formula of the valuation, with no rounding
ExactPrice(w) ==
    RDiv(RSub(RAdd(fcf_sum,
                   RDiv(RMul(final_year_fcf, RAdd(Frac(1, 1), terminal_growth)),
                        RSub(w, terminal_growth))),
              RSub(total_debt, cash_investments)),
         outstanding_shares)

\* C1: a call with wacc <= terminal_growth returns None: no number, and no
\* exception raised
C1_BoundaryReturnsNone ==
    /\ (called >= 1 /\ RLeq(wacc, terminal_growth)) => result = None
    /\ (called = 2 /\ RLeq(prev_wacc, terminal_growth)) => prev_result = None

C1_Witness ==
    /\ called = 2
    /\ REq(prev_wacc, Frac(2, 100)) /\ prev_result = None
    /\ REq(wacc, Frac(3, 100)) /\ result = None

C3_ReferenceScenario ==
    (called >= 1 /\ REq(wacc, Frac(945, 10000))) =>
        /\ REq(final_year_fcf, Cents(<<5378, 4144, 4478>>))
        /\ REq(terminal_growth, Frac(3, 100))
        /\ REq(fcf_sum, Whole(<<333, 6000, 0>>))
        /\ REq(net_debt, Whole(<<613, 5000, 0>>))
        /\ REq(outstanding_shares, Whole(<<18, 0, 0>>))
        /\ result = Price(3217)

C3_Witness ==
    called >= 1 /\ REq(wacc, Frac(945, 10000)) /\ result = Price(3217)

\* C4 as stated: of two calls with rates r1 < r2 above terminal_growth, the
\* one with r1 returns the strictly higher price
C4_StrictlyDecreasing ==
    (called = 2 /\ RLess(terminal_growth, prev_wacc) /\ RLess(prev_wacc, wacc)) =>
        prev_result.cents > result.cents

\* C4 amended: of two calls with rates r1 < r2 above terminal_growth, the one
\* with r1 returns a price that is not lower (the two-decimal rounding makes
\* the prices of close rates equal); and each of the 100 samples of the
\* script's curve has a strictly lower price than the sample before it
C4_NonIncreasing ==
    /\ (called = 2 /\ RLess(terminal_growth, prev_wacc) /\ RLess(prev_wacc, wacc)) =>
           /\ prev_result.kind = "price" /\ result.kind = "price"
           /\ prev_result.cents >= result.cents
    /\ (InCurve /\ linspace_args = ScriptArgs) =>
           \A i \in 2..Len(share_prices) :
               /\ share_prices[i].kind = "price"
               /\ share_prices[i].cents < share_prices[i - 1].cents

C4_Witness ==
    /\ pc = "plot" /\ linspace_args = ScriptArgs /\ Len(share_prices) = 100
    /\ called = 2 /\ RLess(terminal_growth, prev_wacc) /\ RLess(prev_wacc, wacc)
    /\ prev_result.cents > result.cents

\* C5: whatever calls were made before, the value a call returned is the
\* value a call with the same rate returns now, and two calls with the same
\* rate return the same value
C5_Deterministic ==
    /\ called >= 1 => result = calculate_intrinsic_price(wacc)
    /\ called = 2 => prev_result = calculate_intrinsic_price(prev_wacc)
    /\ (called = 2 /\ REq(prev_wacc, wacc)) => prev_result = result

C5_Witness ==
    /\ called = 2 /\ REq(prev_wacc, wacc)
    /\ prev_result = result /\ result.kind = "price"

\* C6: the script's curve has exactly 100 rates, rate i being
\* 0.035 + i * (0.12 - 0.035) / 99, strictly ascending, the first 0.035 and
\* the last 0.12
C6_CurveRates ==
    (InCurve /\ linspace_args = ScriptArgs) =>
        /\ Len(wacc_values) = 100
        /\ \A i \in 0..99 :
               REq(wacc_values[i + 1],
                   RAdd(Frac(35, 1000),
                        RDiv(RMul(Frac(i, 1), RSub(Frac(12, 100), Frac(35, 1000))),
                             Frac(99, 1))))
        /\ \A i \in 1..99 : RLess(wacc_values[i], wacc_values[i + 1])
        /\ REq(wacc_values[1], Frac(35, 1000))
        /\ REq(wacc_values[100], Frac(12, 100))

C6_Witness ==
    pc = "plot" /\ linspace_args = ScriptArgs /\ Len(wacc_values) = 100

\* C7: the comprehension calls the valuation once per sample and never
\* stops early: when it ends, the prices are as many as the rates, entry i is
\* the valuation of rate i, a None entry included
C7_OncePerSample ==
    /\ InCurve => (evals = Len(share_prices) /\ Len(share_prices) <= Len(wacc_values))
    /\ pc = "plot" =>
           /\ Len(share_prices) = Len(wacc_values)
           /\ evals = Len(wacc_values)
           /\ \A i \in 1..Len(wacc_values) :
                  share_prices[i] = calculate_intrinsic_price(wacc_values[i])

C7_Witness ==
    /\ pc = "plot"
    /\ \E i, j \in 1..Len(share_prices) :
           i < j /\ share_prices[i] = None /\ share_prices[j].kind = "price"

C9_FinancialsUnchanged ==
    /\ total_debt = Whole(<<707, 6000, 0>>)
    /\ cash_investments = Whole(<<94, 1000, 0>>)
    /\ net_debt = Whole(<<613, 5000, 0>>)
    /\ outstanding_shares = Whole(<<18, 0, 0>>)
    /\ fcf_sum = Whole(<<333, 6000, 0>>)
    /\ final_year_fcf = Cents(<<5378, 4144, 4478>>)
    /\ terminal_growth = Frac(3, 100)

C9_Witness ==
    /\ called = 2 /\ prev_result.kind = "price" /\ result = None
    /\ pc = "loop" /\ Len(share_prices) >= 1

\* C10: every rate the slider produces is valued at a strictly positive
\* price, the warning is not shown, and the highlighted point carries that
\* price
C10_SliderAlwaysPriced ==
    /\ pc # "idle" =>
           /\ new_share_price.kind = "price"
           /\ new_share_price.cents > 0
           /\ ~warning
    /\ pc = "done" => selected_y = <<new_share_price>>

C10_Witness ==
    /\ pc = "done"
    /\ REq(wacc_input, Frac(35, 1000))
    /\ selected_y = <<Price(59998)>>
=============================================================================
